---- MODULE Spec2Model ----
(***************************************************************************)
(* Model of ortools/math_opt/validators/model_validator.cc: the validation  *)
(* of a complete model (ValidateModel), of a model update in isolation      *)
(* (ValidateModelUpdate) and of a model update against the summary of the   *)
(* model it applies to (ValidateModelUpdateAndSummary).                     *)
(*                                                                          *)
(* A Status is a record: ok, the error kind, the offending id (a sequence   *)
(* of length 0 or 1) and the path of labels that RETURN_IF_ERROR(..) << ".."*)
(* prepends on the way out, outermost first.  Doubles are abstracted to the *)
(* four classes the validators tell apart: "NaN", "-inf", "fin", "+inf".    *)
(* The validators of ids, values, names, sparse matrices and the            *)
(* IdUpdateValidator live in other files of the repository; they are        *)
(* modelled from their specified contracts.                                 *)
(***************************************************************************)
EXTENDS Integers, Sequences, FiniteSets, TLC

\* ------------------------------------------------------------------ bounds
\* Entity ids range over -1..MaxId (-1: an id out of range).
MaxId == 1
\* The caller assembles its inputs in at most MaxEdits elementary edits.
MaxEdits == 3
\* The caller validates the same inputs at most MaxCalls times in a row.
MaxCalls == 2

Ids == 0..MaxId
IdDomain == -1..MaxId
Doubles == {"NaN", "-inf", "fin", "+inf"}
Names == {"a", "b"}

\* ------------------------------------------------------------------ status
OkStatus == [ok |-> TRUE, kind |-> "Ok", bad |-> <<>>, path |-> <<>>]

Error(kind, bad) == [ok |-> FALSE, kind |-> kind, bad |-> bad, path |-> <<>>]

\* RETURN_IF_ERROR(status) << label: a failure leaves with the label in front.
Annotate(status, label) ==
  IF status.ok THEN status ELSE [status EXCEPT !.path = <<label>> \o @]

\* ------------------------------------------------------------ sequences
Range(s) == {s[i] : i \in 1..Len(s)}

StrictlyIncreasing(s) == \A i \in 1..(Len(s) - 1) : s[i] < s[i + 1]

NonDecreasing(s) == \A i \in 1..(Len(s) - 1) : s[i] <= s[i + 1]

\* The first (least) index of a set of indices, 0 when there is none.
First(S) == IF S = {} THEN 0 ELSE CHOOSE i \in S : \A j \in S : i <= j

\* --------------------------------------------------- ids_validator (ids)
\* CheckIdsRangeAndStrictlyIncreasing: every id is in range (non-negative;
\* the model's ids stay far below the largest representable id) and the
\* sequence is strictly increasing.
IdOutOfOrder(s, i) == s[i] < 0 \/ (i > 1 /\ s[i - 1] >= s[i])

CheckIdsRangeAndStrictlyIncreasing(ids) ==
  LET i == First({n \in 1..Len(ids) : IdOutOfOrder(ids, n)})
  IN IF i = 0 THEN OkStatus ELSE Error("MalformedIdSequence", <<ids[i]>>)

\* CheckSortedIdsSubset: a co-scan of two sorted sequences; a cursor into the
\* universe moves forward only, a matched id leaves it in place.
RECURSIVE SortedSubsetScan(_, _, _, _)
SortedSubsetScan(ids, i, universe, j) ==
  IF i > Len(ids) THEN OkStatus
  ELSE IF j > Len(universe) THEN Error("DanglingReference", <<ids[i]>>)
  ELSE IF universe[j] = ids[i] THEN SortedSubsetScan(ids, i + 1, universe, j)
  ELSE IF universe[j] < ids[i] THEN SortedSubsetScan(ids, i, universe, j + 1)
  ELSE Error("DanglingReference", <<ids[i]>>)

CheckSortedIdsSubset(ids, universe) == SortedSubsetScan(ids, 1, universe, 1)

\* ------------------------------------------------------ scalar_validator
\* DoubleOptions: an infinity is disallowed unless the policy allows it.
DefaultDoubleOptions ==
  [allow_positive_infinity |-> FALSE, allow_negative_infinity |-> FALSE]

\* A designated initializer {.field = value}: the fields it does not name keep
\* their defaults.
Options(named) ==
  [f \in DOMAIN DefaultDoubleOptions |->
     IF f \in DOMAIN named THEN named[f] ELSE DefaultDoubleOptions[f]]

ValueAllowed(v, options) ==
  /\ v # "NaN"
  /\ v = "+inf" => options.allow_positive_infinity
  /\ v = "-inf" => options.allow_negative_infinity

CheckScalar(v, options) ==
  IF ValueAllowed(v, options) THEN OkStatus ELSE Error("InvalidValue", <<>>)

CheckScalarNoNanNoInf(v) == CheckScalar(v, DefaultDoubleOptions)

\* ----------------------------------------------- sparse_vector_validator
\* A view pairs an id sequence with a value sequence.
MakeView(ids, values) == [ids |-> ids, values |-> values]

\* CheckValues: one value per id, every value allowed by the policy.
CheckValues(view, options, name) ==
  IF Len(view.ids) # Len(view.values) THEN Error("ShapeViolation", <<>>)
  ELSE LET i == First({n \in 1..Len(view.values) :
                         ~ValueAllowed(view.values[n], options)})
       IN IF i = 0 THEN OkStatus
          ELSE Annotate(Error("InvalidValue", <<view.ids[i]>>), name)

\* CheckIdsAndValues: the ids in range and strictly increasing, then the values.
CheckIdsAndValues(view, options) ==
  LET ids == CheckIdsRangeAndStrictlyIncreasing(view.ids)
  IN IF ~ids.ok THEN ids ELSE CheckValues(view, options, "values")

\* --------------------------------------------------------- name_validator
\* CheckNameVector: no names at all or one per id; unique when names are
\* checked.
CheckNameVector(view, check_names) ==
  IF Len(view.values) # 0 /\ Len(view.values) # Len(view.ids)
  THEN Error("NameMismatch", <<>>)
  ELSE LET i == First({n \in 1..Len(view.values) :
                         \E j \in 1..(n - 1) : view.values[j] = view.values[n]})
       IN IF check_names /\ i # 0 THEN Error("DuplicateName", <<view.ids[i]>>)
          ELSE OkStatus

\* CheckNewNames: the new names are unique among themselves and none is in the
\* registry of the names already recorded.
CheckNewNames(old_names, view) ==
  LET i == First({n \in 1..Len(view.values) :
                    \/ view.values[n] \in old_names
                    \/ \E j \in 1..(n - 1) : view.values[j] = view.values[n]})
  IN IF i # 0 THEN Error("DuplicateName", <<view.ids[i]>>) ELSE OkStatus

\* ------------------------------------------------ sparse_matrix_validator
\* SparseMatrixValid: three arrays of one length, ids non-negative, finite
\* coefficients, entries in increasing (row, column) order, which excludes a
\* duplicate entry and lets a row repeat; upper triangular on request.
EntryBefore(m, i, j) ==
  \/ m.row_ids[i] < m.row_ids[j]
  \/ m.row_ids[i] = m.row_ids[j] /\ m.column_ids[i] < m.column_ids[j]

SparseMatrixValid(matrix, enforce_upper_triangular) ==
  IF \/ Len(matrix.row_ids) # Len(matrix.column_ids)
     \/ Len(matrix.row_ids) # Len(matrix.coefficients)
  THEN Error("ShapeViolation", <<>>)
  ELSE IF \E i \in 1..Len(matrix.row_ids) :
            matrix.row_ids[i] < 0 \/ matrix.column_ids[i] < 0
  THEN Error("MalformedIdSequence", <<>>)
  ELSE IF \E i \in 1..(Len(matrix.row_ids) - 1) : ~EntryBefore(matrix, i, i + 1)
  THEN Error("ShapeViolation", <<>>)
  ELSE IF \E i \in 1..Len(matrix.coefficients) :
            ~ValueAllowed(matrix.coefficients[i], DefaultDoubleOptions)
  THEN Error("InvalidValue", <<>>)
  ELSE IF /\ enforce_upper_triangular
          /\ \E i \in 1..Len(matrix.row_ids) :
               matrix.row_ids[i] > matrix.column_ids[i]
  THEN Error("ShapeViolation", <<>>)
  ELSE OkStatus

\* SparseMatrixIdsAreKnown: the row ids (sorted) by co-scan against the row
\* universe, the column ids one by one against the column universe.
SparseMatrixIdsAreKnown(matrix, row_ids, column_ids) ==
  LET rows == CheckSortedIdsSubset(matrix.row_ids, row_ids)
      c == First({n \in 1..Len(matrix.column_ids) :
                    matrix.column_ids[n] \notin Range(column_ids)})
  IN IF ~rows.ok THEN rows
     ELSE IF c # 0 THEN Error("DanglingReference", <<matrix.column_ids[c]>>)
     ELSE OkStatus

\* ---------------------------------------- ids_validator (IdUpdateValidator)
\* The tracker of one entity kind: the ids of the summary, the ids the update
\* deletes and the ids it adds.  Nothing is materialised from them.
IdUpdateValidator(old_ids, deleted_ids, new_ids) ==
  [old_ids |-> old_ids, deleted_ids |-> deleted_ids, new_ids |-> new_ids]

\* IsValid: the deletions first (each deleted id is an old id, strictly
\* increasing), then the additions (no new id is an old id, strictly
\* increasing, none deleted by the same update).
IsValid(v) ==
  LET d == First({i \in 1..Len(v.deleted_ids) :
                    \/ v.deleted_ids[i] \notin Range(v.old_ids)
                    \/ i > 1 /\ v.deleted_ids[i - 1] >= v.deleted_ids[i]})
      n == First({i \in 1..Len(v.new_ids) :
                    \/ v.new_ids[i] \in Range(v.old_ids)
                    \/ i > 1 /\ v.new_ids[i - 1] >= v.new_ids[i]
                    \/ v.new_ids[i] \in Range(v.deleted_ids)})
  IN IF d # 0 THEN Error("InvalidDeletion", <<v.deleted_ids[d]>>)
     ELSE IF n # 0 THEN Error("IdCollision", <<v.new_ids[n]>>)
     ELSE OkStatus

\* A cursor j into the sorted sequence s, moved past the elements below x.
RECURSIVE Advance(_, _, _)
Advance(s, j, x) == IF j <= Len(s) /\ s[j] < x THEN Advance(s, j + 1, x) ELSE j

At(s, j, x) == j <= Len(s) /\ s[j] = x

\* CheckSortedIdsSubsetOfNotDeleted: a co-scan with one cursor into the old ids
\* and one into the deleted ids; an id passes when it is old and not deleted.
RECURSIVE NotDeletedScan(_, _, _, _, _)
NotDeletedScan(v, ids, i, j, k) ==
  IF i > Len(ids) THEN OkStatus
  ELSE LET x == ids[i]
           j2 == Advance(v.old_ids, j, x)
           k2 == Advance(v.deleted_ids, k, x)
       IN IF At(v.old_ids, j2, x) /\ ~At(v.deleted_ids, k2, x)
          THEN NotDeletedScan(v, ids, i + 1, j2, k2)
          ELSE Error("DanglingReference", <<x>>)

CheckSortedIdsSubsetOfNotDeleted(v, ids) == NotDeletedScan(v, ids, 1, 1, 1)

\* CheckSortedIdsSubsetOfFinal: the same co-scan with a third cursor into the
\* new ids; an id passes when it is old and not deleted, or new.
RECURSIVE FinalScan(_, _, _, _, _, _)
FinalScan(v, ids, i, j, k, a) ==
  IF i > Len(ids) THEN OkStatus
  ELSE LET x == ids[i]
           j2 == Advance(v.old_ids, j, x)
           k2 == Advance(v.deleted_ids, k, x)
           a2 == Advance(v.new_ids, a, x)
       IN IF \/ At(v.old_ids, j2, x) /\ ~At(v.deleted_ids, k2, x)
             \/ At(v.new_ids, a2, x)
          THEN FinalScan(v, ids, i + 1, j2, k2, a2)
          ELSE Error("DanglingReference", <<x>>)

CheckSortedIdsSubsetOfFinal(v, ids) == FinalScan(v, ids, 1, 1, 1, 1)

\* CheckIdsSubsetOfFinal: ids in any order, a membership test for each.
CheckIdsSubsetOfFinal(v, ids) ==
  LET i == First({n \in 1..Len(ids) :
                    ids[n] \notin (Range(v.old_ids) \ Range(v.deleted_ids))
                                     \cup Range(v.new_ids)})
  IN IF i # 0 THEN Error("DanglingReference", <<ids[i]>>) ELSE OkStatus

\* ------------------------------------------------------------ submessages
VariablesValid(variables, check_names) ==
  LET s1 == Annotate(CheckIdsRangeAndStrictlyIncreasing(variables.ids),
                     "Bad variable ids")
      s2 == CheckValues(MakeView(variables.ids, variables.lower_bounds),
                        Options([allow_positive_infinity |-> FALSE]),
                        "lower_bounds")
      s3 == CheckValues(MakeView(variables.ids, variables.upper_bounds),
                        Options([allow_negative_infinity |-> FALSE]),
                        "upper_bounds")
      s4 == CheckValues(MakeView(variables.ids, variables.integers),
                        DefaultDoubleOptions, "integers")
      s5 == CheckNameVector(MakeView(variables.ids, variables.names), check_names)
  IN IF ~s1.ok THEN s1
     ELSE IF ~s2.ok THEN s2
     ELSE IF ~s3.ok THEN s3
     ELSE IF ~s4.ok THEN s4
     ELSE IF ~s5.ok THEN s5
     ELSE OkStatus

VariableUpdatesValid(variable_updates) ==
  LET s1 == Annotate(CheckIdsAndValues(variable_updates.lower_bounds,
                                       Options([allow_positive_infinity |-> FALSE])),
                     "Bad lower bounds")
      s2 == Annotate(CheckIdsAndValues(variable_updates.upper_bounds,
                                       Options([allow_negative_infinity |-> FALSE])),
                     "Bad upper bounds")
      s3 == Annotate(CheckIdsAndValues(variable_updates.integers,
                                       DefaultDoubleOptions),
                     "Bad integers")
  IN IF ~s1.ok THEN s1 ELSE IF ~s2.ok THEN s2 ELSE IF ~s3.ok THEN s3 ELSE OkStatus

\* VariableUpdatesValidForState with the lower bound ids checked against the
\* final view.
VariableUpdatesValidForStateFinal(variable_updates, id_validator) ==
  LET s1 == Annotate(CheckSortedIdsSubsetOfFinal(
                       id_validator, variable_updates.lower_bounds.ids),
                     "lower bound update on invalid variable id")
      s2 == Annotate(CheckSortedIdsSubsetOfNotDeleted(
                       id_validator, variable_updates.upper_bounds.ids),
                     "upper bound update on invalid variable id")
      s3 == Annotate(CheckSortedIdsSubsetOfNotDeleted(
                       id_validator, variable_updates.integers.ids),
                     "integer update on invalid variable id")
  IN IF ~s1.ok THEN s1 ELSE IF ~s2.ok THEN s2 ELSE IF ~s3.ok THEN s3 ELSE OkStatus

\* VariableUpdatesValidForState with the upper bound ids checked in place of
\* the lower bound ids.
VariableUpdatesValidForStateUpperTwice(variable_updates, id_validator) ==
  LET s1 == Annotate(CheckSortedIdsSubsetOfNotDeleted(
                       id_validator, variable_updates.upper_bounds.ids),
                     "lower bound update on invalid variable id")
      s2 == Annotate(CheckSortedIdsSubsetOfNotDeleted(
                       id_validator, variable_updates.upper_bounds.ids),
                     "upper bound update on invalid variable id")
      s3 == Annotate(CheckSortedIdsSubsetOfNotDeleted(
                       id_validator, variable_updates.integers.ids),
                     "integer update on invalid variable id")
  IN IF ~s1.ok THEN s1 ELSE IF ~s2.ok THEN s2 ELSE IF ~s3.ok THEN s3 ELSE OkStatus

VariableUpdatesValidForState(variable_updates, id_validator) ==
  LET s1 == Annotate(CheckSortedIdsSubsetOfNotDeleted(
                       id_validator, variable_updates.lower_bounds.ids),
                     "lower bound update on invalid variable id")
      s2 == Annotate(CheckSortedIdsSubsetOfNotDeleted(
                       id_validator, variable_updates.upper_bounds.ids),
                     "upper bound update on invalid variable id")
      s3 == Annotate(CheckSortedIdsSubsetOfNotDeleted(
                       id_validator, variable_updates.integers.ids),
                     "integer update on invalid variable id")
  IN IF ~s1.ok THEN s1 ELSE IF ~s2.ok THEN s2 ELSE IF ~s3.ok THEN s3 ELSE OkStatus

\* ObjectiveValid without the check of the linear ids against the variable ids.
ObjectiveValidLinearUnchecked(objective, variable_ids) ==
  LET s1 == Annotate(CheckScalarNoNanNoInf(objective.offset),
                     "Objective offset invalid")
      s2 == Annotate(CheckIdsAndValues(
                       objective.linear_coefficients,
                       Options([allow_positive_infinity |-> FALSE,
                                allow_negative_infinity |-> FALSE])),
                     "Linear objective coefficients bad")
      s4 == Annotate(SparseMatrixValid(objective.quadratic_coefficients, TRUE),
                     "Objective.quadratic_coefficients invalid")
      s5 == Annotate(SparseMatrixIdsAreKnown(objective.quadratic_coefficients,
                                             variable_ids, variable_ids),
                     "Objective.quadratic_coefficients invalid")
  IN IF ~s1.ok THEN s1
     ELSE IF ~s2.ok THEN s2
     ELSE IF ~s4.ok THEN s4
     ELSE IF ~s5.ok THEN s5
     ELSE OkStatus

ObjectiveValid(objective, variable_ids) ==
  LET s1 == Annotate(CheckScalarNoNanNoInf(objective.offset),
                     "Objective offset invalid")
      s2 == Annotate(CheckIdsAndValues(
                       objective.linear_coefficients,
                       Options([allow_positive_infinity |-> FALSE,
                                allow_negative_infinity |-> FALSE])),
                     "Linear objective coefficients bad")
      s3 == Annotate(CheckSortedIdsSubset(objective.linear_coefficients.ids,
                                          variable_ids),
                     "Objective.linear_coefficients.ids not found in Variables.ids")
      s4 == Annotate(SparseMatrixValid(objective.quadratic_coefficients, TRUE),
                     "Objective.quadratic_coefficients invalid")
      s5 == Annotate(SparseMatrixIdsAreKnown(objective.quadratic_coefficients,
                                             variable_ids, variable_ids),
                     "Objective.quadratic_coefficients invalid")
  IN IF ~s1.ok THEN s1
     ELSE IF ~s2.ok THEN s2
     ELSE IF ~s3.ok THEN s3
     ELSE IF ~s4.ok THEN s4
     ELSE IF ~s5.ok THEN s5
     ELSE OkStatus

\* ObjectiveUpdatesValid with the linear terms' values checked and their ids
\* not.
ObjectiveUpdatesValidIdsUnchecked(objective_updates) ==
  LET s1 == Annotate(CheckScalarNoNanNoInf(objective_updates.offset_update),
                     "Offset update invalid")
      s2 == Annotate(CheckValues(
                       objective_updates.linear_coefficients,
                       Options([allow_positive_infinity |-> FALSE,
                                allow_negative_infinity |-> FALSE]),
                       "values"),
                     "Linear objective coefficients bad")
      s3 == Annotate(SparseMatrixValid(objective_updates.quadratic_coefficients,
                                       TRUE),
                     "Objective.quadratic_coefficients invalid")
  IN IF ~s1.ok THEN s1 ELSE IF ~s2.ok THEN s2 ELSE IF ~s3.ok THEN s3 ELSE OkStatus

ObjectiveUpdatesValid(objective_updates) ==
  LET s1 == Annotate(CheckScalarNoNanNoInf(objective_updates.offset_update),
                     "Offset update invalid")
      s2 == Annotate(CheckIdsAndValues(
                       objective_updates.linear_coefficients,
                       Options([allow_positive_infinity |-> FALSE,
                                allow_negative_infinity |-> FALSE])),
                     "Linear objective coefficients bad")
      s3 == Annotate(SparseMatrixValid(objective_updates.quadratic_coefficients,
                                       TRUE),
                     "Objective.quadratic_coefficients invalid")
  IN IF ~s1.ok THEN s1 ELSE IF ~s2.ok THEN s2 ELSE IF ~s3.ok THEN s3 ELSE OkStatus

\* ObjectiveUpdatesValidForModel with the linear ids checked against the live
\* view.
ObjectiveUpdatesValidForModelLive(objective_updates, id_validator) ==
  LET s1 == Annotate(CheckSortedIdsSubsetOfNotDeleted(
                       id_validator, objective_updates.linear_coefficients.ids),
                     "Linear coefficients ids not found in variable ids")
      s2 == Annotate(CheckSortedIdsSubsetOfFinal(
                       id_validator,
                       objective_updates.quadratic_coefficients.row_ids),
                     "Quadratic coefficient ids bad")
      s3 == Annotate(CheckIdsSubsetOfFinal(
                       id_validator,
                       objective_updates.quadratic_coefficients.column_ids),
                     "Quadratic coefficient ids bad")
  IN IF ~s1.ok THEN s1 ELSE IF ~s2.ok THEN s2 ELSE IF ~s3.ok THEN s3 ELSE OkStatus

ObjectiveUpdatesValidForModel(objective_updates, id_validator) ==
  LET s1 == Annotate(CheckSortedIdsSubsetOfFinal(
                       id_validator, objective_updates.linear_coefficients.ids),
                     "Linear coefficients ids not found in variable ids")
      s2 == Annotate(CheckSortedIdsSubsetOfFinal(
                       id_validator,
                       objective_updates.quadratic_coefficients.row_ids),
                     "Quadratic coefficient ids bad")
      s3 == Annotate(CheckIdsSubsetOfFinal(
                       id_validator,
                       objective_updates.quadratic_coefficients.column_ids),
                     "Quadratic coefficient ids bad")
  IN IF ~s1.ok THEN s1 ELSE IF ~s2.ok THEN s2 ELSE IF ~s3.ok THEN s3 ELSE OkStatus

LinearConstraintsValid(linear_constraints, check_names) ==
  LET s1 == Annotate(CheckIdsRangeAndStrictlyIncreasing(linear_constraints.ids),
                     "Bad linear constraint ids")
      s2 == CheckValues(MakeView(linear_constraints.ids,
                                 linear_constraints.lower_bounds),
                        Options([allow_positive_infinity |-> FALSE]),
                        "lower_bounds")
      s3 == CheckValues(MakeView(linear_constraints.ids,
                                 linear_constraints.upper_bounds),
                        Options([allow_negative_infinity |-> FALSE]),
                        "upper_bounds")
      s4 == CheckNameVector(MakeView(linear_constraints.ids,
                                     linear_constraints.names),
                            check_names)
  IN IF ~s1.ok THEN s1
     ELSE IF ~s2.ok THEN s2
     ELSE IF ~s3.ok THEN s3
     ELSE IF ~s4.ok THEN s4
     ELSE OkStatus

LinearConstraintUpdatesValid(linear_constraint_updates) ==
  LET s1 == Annotate(CheckIdsAndValues(
                       linear_constraint_updates.lower_bounds,
                       Options([allow_positive_infinity |-> FALSE])),
                     "Bad lower bounds")
      s2 == Annotate(CheckIdsAndValues(
                       linear_constraint_updates.upper_bounds,
                       Options([allow_negative_infinity |-> FALSE])),
                     "Bad upper bounds")
  IN IF ~s1.ok THEN s1 ELSE IF ~s2.ok THEN s2 ELSE OkStatus

LinearConstraintUpdatesValidForState(linear_constraint_updates, id_validator) ==
  LET s1 == Annotate(CheckSortedIdsSubsetOfNotDeleted(
                       id_validator, linear_constraint_updates.lower_bounds.ids),
                     "lower bound update on invalid linear constraint id")
      s2 == Annotate(CheckSortedIdsSubsetOfNotDeleted(
                       id_validator, linear_constraint_updates.upper_bounds.ids),
                     "upper bound update on invalid linear constraint id")
  IN IF ~s1.ok THEN s1 ELSE IF ~s2.ok THEN s2 ELSE OkStatus

LinearConstraintMatrixIdsValidForUpdate(matrix, lc_validator, var_validator) ==
  LET s1 == Annotate(CheckSortedIdsSubsetOfFinal(lc_validator, matrix.row_ids),
                     "Unknown linear_constraint_id")
      s2 == Annotate(CheckIdsSubsetOfFinal(var_validator, matrix.column_ids),
                     "Unknown variable_id")
  IN IF ~s1.ok THEN s1 ELSE IF ~s2.ok THEN s2 ELSE OkStatus

\* ------------------------------------------------------------------ state
VARIABLES
  model,                  \* the ModelProto the caller holds
  model_update,           \* the ModelUpdateProto the caller holds
  model_summary,          \* the ModelSummary of the last accepted model
  declared_check_names,   \* the default of ValidateModelUpdate's check_names
  edits,                  \* the edits the caller has made to its inputs
  calls,                  \* the validations so far: function, flag, status
  run                     \* a ValidateModelUpdateAndSummary in progress

vars == <<model, model_update, model_summary, declared_check_names, edits, calls, run>>

inputs == <<model, model_update, model_summary>>

EmptySparseVector == [ids |-> <<>>, values |-> <<>>]

EmptySparseMatrix == [row_ids |-> <<>>, column_ids |-> <<>>, coefficients |-> <<>>]

EmptyVariables ==
  [ids |-> <<>>, lower_bounds |-> <<>>, upper_bounds |-> <<>>, integers |-> <<>>,
   names |-> <<>>]

EmptyLinearConstraints ==
  [ids |-> <<>>, lower_bounds |-> <<>>, upper_bounds |-> <<>>, names |-> <<>>]

EmptyModel ==
  [variables |-> EmptyVariables,
   objective |-> [offset |-> "fin",
                  linear_coefficients |-> EmptySparseVector,
                  quadratic_coefficients |-> EmptySparseMatrix],
   linear_constraints |-> EmptyLinearConstraints,
   linear_constraint_matrix |-> EmptySparseMatrix]

EmptyModelUpdate ==
  [deleted_variable_ids |-> <<>>,
   deleted_linear_constraint_ids |-> <<>>,
   variable_updates |-> [lower_bounds |-> EmptySparseVector,
                         upper_bounds |-> EmptySparseVector,
                         integers |-> EmptySparseVector],
   linear_constraint_updates |-> [lower_bounds |-> EmptySparseVector,
                                  upper_bounds |-> EmptySparseVector],
   new_variables |-> EmptyVariables,
   new_linear_constraints |-> EmptyLinearConstraints,
   objective_updates |-> [offset_update |-> "fin",
                          linear_coefficients |-> EmptySparseVector,
                          quadratic_coefficients |-> EmptySparseMatrix],
   linear_constraint_matrix_updates |-> EmptySparseMatrix]

\* An IdNameBiMap per entity kind: the ids in increasing order, and the names.
EmptyModelSummary ==
  [variables |-> [ids |-> <<>>, names |-> {}],
   linear_constraints |-> [ids |-> <<>>, names |-> {}]]

Idle == [state |-> "idle", check_names |-> FALSE, next |-> 1, evaluated |-> <<>>,
         status |-> OkStatus]

\* ------------------------------------------------------------ entry points
ValidateModel(m, check_names) ==
  LET s1 == Annotate(VariablesValid(m.variables, check_names),
                     "Model.variables are invalid.")
      s2 == Annotate(ObjectiveValid(m.objective, m.variables.ids),
                     "Model.objective is invalid")
      s3 == Annotate(LinearConstraintsValid(m.linear_constraints, check_names),
                     "Model.linear_constraints are invalid")
      s4 == Annotate(SparseMatrixValid(m.linear_constraint_matrix, FALSE),
                     "Model.linear_constraint_matrix invalid")
      s5 == Annotate(SparseMatrixIdsAreKnown(m.linear_constraint_matrix,
                                             m.linear_constraints.ids,
                                             m.variables.ids),
                     "Model.linear_constraint_matrix ids are inconsistent")
  IN IF ~s1.ok THEN s1
     ELSE IF ~s2.ok THEN s2
     ELSE IF ~s3.ok THEN s3
     ELSE IF ~s4.ok THEN s4
     ELSE IF ~s5.ok THEN s5
     ELSE OkStatus

ValidateModelUpdate(u, check_names) ==
  LET s1 == Annotate(CheckIdsRangeAndStrictlyIncreasing(
                       u.deleted_linear_constraint_ids),
                     "ModelUpdateProto.deleted_linear_constraint_ids invalid")
      s2 == Annotate(CheckIdsRangeAndStrictlyIncreasing(u.deleted_variable_ids),
                     "ModelUpdateProto.deleted_variable_ids invalid")
      s3 == Annotate(VariableUpdatesValid(u.variable_updates),
                     "ModelUpdateProto.variable_updates invalid")
      s4 == Annotate(LinearConstraintUpdatesValid(u.linear_constraint_updates),
                     "ModelUpdateProto.linear_constraint_updates invalid")
      s5 == Annotate(VariablesValid(u.new_variables, check_names),
                     "ModelUpdateProto.new_variables invalid")
      s6 == Annotate(LinearConstraintsValid(u.new_linear_constraints, check_names),
                     "ModelUpdateProto.new_linear_constraints invalid")
      s7 == Annotate(ObjectiveUpdatesValid(u.objective_updates),
                     "ModelUpdateProto.objective_update invalid")
      s8 == Annotate(SparseMatrixValid(u.linear_constraint_matrix_updates, FALSE),
                     "Model.linear_constraint_matrix_updates invalid")
  IN IF ~s1.ok THEN s1
     ELSE IF ~s2.ok THEN s2
     ELSE IF ~s3.ok THEN s3
     ELSE IF ~s4.ok THEN s4
     ELSE IF ~s5.ok THEN s5
     ELSE IF ~s6.ok THEN s6
     ELSE IF ~s7.ok THEN s7
     ELSE IF ~s8.ok THEN s8
     ELSE OkStatus

\* The two trackers ValidateModelUpdateAndSummary builds.
VariableIdValidator(u, summary) ==
  IdUpdateValidator(summary.variables.ids, u.deleted_variable_ids,
                    u.new_variables.ids)

\* The constraint tracker built from the summary's variable ids.
LinearConstraintIdValidatorOfVariables(u, summary) ==
  IdUpdateValidator(summary.variables.ids,
                    u.deleted_linear_constraint_ids,
                    u.new_linear_constraints.ids)

LinearConstraintIdValidator(u, summary) ==
  IdUpdateValidator(summary.linear_constraints.ids,
                    u.deleted_linear_constraint_ids,
                    u.new_linear_constraints.ids)

\* The check_names the structural checks run with: the call of
\* ValidateModelUpdate passes none, so it is the default of the declaration.
StructuralCheckNames(check_names) == declared_check_names

\* The statements of ValidateModelUpdateAndSummary with the two tracker
\* validations in the other order.
StatementsConstraintsFirst ==
  <<"ValidateModelUpdate", "linear_constraint_id_validator.IsValid",
    "variable_id_validator.IsValid", "VariableUpdatesValidForState",
    "LinearConstraintUpdatesValidForState", "ObjectiveUpdatesValidForModel",
    "LinearConstraintMatrixIdsValidForUpdate", "CheckNewNames(variables)",
    "CheckNewNames(linear_constraints)">>

\* The statements of ValidateModelUpdateAndSummary, in program order.
Statements ==
  <<"ValidateModelUpdate", "variable_id_validator.IsValid",
    "linear_constraint_id_validator.IsValid", "VariableUpdatesValidForState",
    "LinearConstraintUpdatesValidForState", "ObjectiveUpdatesValidForModel",
    "LinearConstraintMatrixIdsValidForUpdate", "CheckNewNames(variables)",
    "CheckNewNames(linear_constraints)">>

StatementStatus(name, u, summary, check_names) ==
  CASE name = "ValidateModelUpdate" ->
         ValidateModelUpdate(u, StructuralCheckNames(check_names))
    [] name = "variable_id_validator.IsValid" ->
         Annotate(IsValid(VariableIdValidator(u, summary)),
                  "Invalid new or deleted variable id")
    [] name = "linear_constraint_id_validator.IsValid" ->
         Annotate(IsValid(LinearConstraintIdValidator(u, summary)),
                  "Invalid new or deleted linear constraint id")
    [] name = "VariableUpdatesValidForState" ->
         Annotate(VariableUpdatesValidForState(u.variable_updates,
                                               VariableIdValidator(u, summary)),
                  "Invalid variable update")
    [] name = "LinearConstraintUpdatesValidForState" ->
         Annotate(LinearConstraintUpdatesValidForState(
                    u.linear_constraint_updates,
                    LinearConstraintIdValidator(u, summary)),
                  "Invalid linear constraint update")
    [] name = "ObjectiveUpdatesValidForModel" ->
         Annotate(ObjectiveUpdatesValidForModel(u.objective_updates,
                                                VariableIdValidator(u, summary)),
                  "Invalid objective update")
    [] name = "LinearConstraintMatrixIdsValidForUpdate" ->
         Annotate(LinearConstraintMatrixIdsValidForUpdate(
                    u.linear_constraint_matrix_updates,
                    LinearConstraintIdValidator(u, summary),
                    VariableIdValidator(u, summary)),
                  "Invalid linear constraint matrix update")
    [] name = "CheckNewNames(variables)" ->
         IF check_names /\ u.new_variables.names # <<>>
         THEN Annotate(CheckNewNames(summary.variables.names,
                                     MakeView(u.new_variables.ids,
                                              u.new_variables.names)),
                       "Bad new variable names")
         ELSE OkStatus
    [] name = "CheckNewNames(linear_constraints)" ->
         IF check_names /\ u.new_linear_constraints.names # <<>>
         THEN Annotate(CheckNewNames(summary.linear_constraints.names,
                                     MakeView(u.new_linear_constraints.ids,
                                              u.new_linear_constraints.names)),
                       "Bad new linear constraint names")
         ELSE OkStatus

\* RETURN_IF_ERROR after each statement: the first failure is the result.
RECURSIVE RunFrom(_, _, _, _)
RunFrom(n, u, summary, check_names) ==
  IF n > Len(Statements) THEN OkStatus
  ELSE LET status == StatementStatus(Statements[n], u, summary, check_names)
       IN IF ~status.ok THEN status ELSE RunFrom(n + 1, u, summary, check_names)

ValidateModelUpdateAndSummary(u, summary, check_names) ==
  RunFrom(1, u, summary, check_names)

\* A validation that advances the summary by the deletions of an update it
\* accepts.
SummaryAdvanced(u, summary, status) ==
  IF status.ok
  THEN [summary EXCEPT !.variables.ids =
          SelectSeq(@, LAMBDA id : id \notin Range(u.deleted_variable_ids))]
  ELSE summary

\* The validators take their arguments by reference to const: the summary a
\* validation leaves behind is the summary it was given.
SummaryAfterValidation(u, summary, status) == summary

\* ------------------------------------------------------------------- init
Init ==
  /\ model = EmptyModel
  /\ model_update = EmptyModelUpdate
  /\ model_summary = EmptyModelSummary
  /\ declared_check_names \in BOOLEAN
  /\ edits = 0
  /\ calls = <<>>
  /\ run = Idle

\* ------------------------------------------------- the caller: its inputs
CanEdit == edits < MaxEdits /\ calls = <<>> /\ run.state = "idle"

Edited == edits' = edits + 1 /\ UNCHANGED <<declared_check_names, calls, run>>

AppendEntry(vector, id, v) ==
  [ids |-> Append(vector.ids, id), values |-> Append(vector.values, v)]

AppendCoefficient(matrix, r, c, v) ==
  [row_ids |-> Append(matrix.row_ids, r),
   column_ids |-> Append(matrix.column_ids, c),
   coefficients |-> Append(matrix.coefficients, v)]

AppendVariable(variables, id) ==
  [variables EXCEPT !.ids = Append(@, id),
                    !.lower_bounds = Append(@, "fin"),
                    !.upper_bounds = Append(@, "fin"),
                    !.integers = Append(@, "fin")]

AppendLinearConstraint(linear_constraints, id) ==
  [linear_constraints EXCEPT !.ids = Append(@, id),
                             !.lower_bounds = Append(@, "fin"),
                             !.upper_bounds = Append(@, "fin")]

SetLast(s, v) == [s EXCEPT ![Len(s)] = v]

\* --- a model
AddVariable ==
  /\ CanEdit
  /\ \E id \in IdDomain :
       model' = [model EXCEPT !.variables = AppendVariable(@, id)]
  /\ Edited /\ UNCHANGED <<model_update, model_summary>>

SetVariableBound ==
  /\ CanEdit /\ model.variables.ids # <<>>
  /\ \E v \in Doubles \ {"fin"} :
       \/ model' = [model EXCEPT !.variables.lower_bounds = SetLast(@, v)]
       \/ model' = [model EXCEPT !.variables.upper_bounds = SetLast(@, v)]
  /\ Edited /\ UNCHANGED <<model_update, model_summary>>

AddLinearConstraint ==
  /\ CanEdit
  /\ \E id \in IdDomain :
       model' = [model EXCEPT !.linear_constraints = AppendLinearConstraint(@, id)]
  /\ Edited /\ UNCHANGED <<model_update, model_summary>>

SetLinearConstraintBound ==
  /\ CanEdit /\ model.linear_constraints.ids # <<>>
  /\ \E v \in Doubles \ {"fin"} :
       \/ model' = [model EXCEPT !.linear_constraints.lower_bounds = SetLast(@, v)]
       \/ model' = [model EXCEPT !.linear_constraints.upper_bounds = SetLast(@, v)]
  /\ Edited /\ UNCHANGED <<model_update, model_summary>>

AddObjectiveTerm ==
  /\ CanEdit
  /\ \E id \in IdDomain :
       model' = [model EXCEPT !.objective.linear_coefficients =
                                 AppendEntry(@, id, "fin")]
  /\ Edited /\ UNCHANGED <<model_update, model_summary>>

AddQuadraticTerm ==
  /\ CanEdit
  /\ \E r \in Ids, c \in Ids :
       model' = [model EXCEPT !.objective.quadratic_coefficients =
                                 AppendCoefficient(@, r, c, "fin")]
  /\ Edited /\ UNCHANGED <<model_update, model_summary>>

AddMatrixEntry ==
  /\ CanEdit
  /\ \E r \in Ids, c \in Ids :
       model' = [model EXCEPT !.linear_constraint_matrix =
                                 AppendCoefficient(@, r, c, "fin")]
  /\ Edited /\ UNCHANGED <<model_update, model_summary>>

\* --- a summary: ids are recorded in increasing order, names with their ids
ExistingVariable ==
  /\ CanEdit
  /\ \E id \in Ids :
       /\ \A i \in 1..Len(model_summary.variables.ids) :
            model_summary.variables.ids[i] < id
       /\ model_summary' = [model_summary EXCEPT !.variables.ids = Append(@, id)]
  /\ Edited /\ UNCHANGED <<model, model_update>>

ExistingLinearConstraint ==
  /\ CanEdit
  /\ \E id \in Ids :
       /\ \A i \in 1..Len(model_summary.linear_constraints.ids) :
            model_summary.linear_constraints.ids[i] < id
       /\ model_summary' =
            [model_summary EXCEPT !.linear_constraints.ids = Append(@, id)]
  /\ Edited /\ UNCHANGED <<model, model_update>>

ExistingNamedVariable ==
  /\ CanEdit
  /\ \E id \in Ids, name \in Names :
       /\ \A i \in 1..Len(model_summary.variables.ids) :
            model_summary.variables.ids[i] < id
       /\ name \notin model_summary.variables.names
       /\ model_summary' = [model_summary EXCEPT !.variables.ids = Append(@, id),
                                                 !.variables.names = @ \cup {name}]
  /\ Edited /\ UNCHANGED <<model, model_update>>

ExistingNamedLinearConstraint ==
  /\ CanEdit
  /\ \E id \in Ids, name \in Names :
       /\ \A i \in 1..Len(model_summary.linear_constraints.ids) :
            model_summary.linear_constraints.ids[i] < id
       /\ name \notin model_summary.linear_constraints.names
       /\ model_summary' =
            [model_summary EXCEPT !.linear_constraints.ids = Append(@, id),
                                  !.linear_constraints.names = @ \cup {name}]
  /\ Edited /\ UNCHANGED <<model, model_update>>

\* --- a model update
DeleteVariable ==
  /\ CanEdit
  /\ \E id \in IdDomain :
       model_update' = [model_update EXCEPT !.deleted_variable_ids = Append(@, id)]
  /\ Edited /\ UNCHANGED <<model, model_summary>>

DeleteLinearConstraint ==
  /\ CanEdit
  /\ \E id \in IdDomain :
       model_update' =
         [model_update EXCEPT !.deleted_linear_constraint_ids = Append(@, id)]
  /\ Edited /\ UNCHANGED <<model, model_summary>>

NewVariable ==
  /\ CanEdit
  /\ \E id \in IdDomain :
       model_update' = [model_update EXCEPT !.new_variables = AppendVariable(@, id)]
  /\ Edited /\ UNCHANGED <<model, model_summary>>

NewLinearConstraint ==
  /\ CanEdit
  /\ \E id \in IdDomain :
       model_update' = [model_update EXCEPT !.new_linear_constraints =
                                               AppendLinearConstraint(@, id)]
  /\ Edited /\ UNCHANGED <<model, model_summary>>

NewNamedVariable ==
  /\ CanEdit
  /\ \E id \in Ids, name \in Names :
       model_update' =
         [model_update EXCEPT !.new_variables =
                                 [AppendVariable(@, id) EXCEPT
                                    !.names = Append(@, name)]]
  /\ Edited /\ UNCHANGED <<model, model_summary>>

NewNamedLinearConstraint ==
  /\ CanEdit
  /\ \E id \in Ids, name \in Names :
       model_update' =
         [model_update EXCEPT !.new_linear_constraints =
                                 [AppendLinearConstraint(@, id) EXCEPT
                                    !.names = Append(@, name)]]
  /\ Edited /\ UNCHANGED <<model, model_summary>>

UpdateVariable(fields) ==
  /\ CanEdit
  /\ \E id \in IdDomain, field \in fields :
       model_update' = [model_update EXCEPT !.variable_updates[field] =
                                               AppendEntry(@, id, "fin")]
  /\ Edited /\ UNCHANGED <<model, model_summary>>

UpdateLinearConstraint(fields) ==
  /\ CanEdit
  /\ \E id \in IdDomain, field \in fields :
       model_update' = [model_update EXCEPT !.linear_constraint_updates[field] =
                                               AppendEntry(@, id, "fin")]
  /\ Edited /\ UNCHANGED <<model, model_summary>>

UpdateObjectiveTerm ==
  /\ CanEdit
  /\ \E id \in IdDomain :
       model_update' =
         [model_update EXCEPT !.objective_updates.linear_coefficients =
                                 AppendEntry(@, id, "fin")]
  /\ Edited /\ UNCHANGED <<model, model_summary>>

UpdateQuadraticTerm ==
  /\ CanEdit
  /\ \E r \in Ids, c \in Ids :
       model_update' =
         [model_update EXCEPT !.objective_updates.quadratic_coefficients =
                                 AppendCoefficient(@, r, c, "fin")]
  /\ Edited /\ UNCHANGED <<model, model_summary>>

UpdateMatrixEntry ==
  /\ CanEdit
  /\ \E r \in Ids, c \in Ids :
       model_update' =
         [model_update EXCEPT !.linear_constraint_matrix_updates =
                                 AppendCoefficient(@, r, c, "fin")]
  /\ Edited /\ UNCHANGED <<model, model_summary>>

\* ----------------------------------------------- the caller: validations
Call(function, check_names, structural, status) ==
  [function |-> function, check_names |-> check_names,
   structural_check_names |-> structural, status |-> status]

CallValidateModel(limit) ==
  /\ Len(calls) < limit /\ run.state = "idle"
  /\ \E check_names \in BOOLEAN :
       calls' = Append(calls, Call("ValidateModel", check_names, check_names,
                                   ValidateModel(model, check_names)))
  /\ UNCHANGED <<model, model_update, model_summary, declared_check_names, edits, run>>

CallValidateModelUpdate(limit) ==
  /\ Len(calls) < limit /\ run.state = "idle"
  /\ \E check_names \in BOOLEAN :
       calls' = Append(calls, Call("ValidateModelUpdate", check_names, check_names,
                                   ValidateModelUpdate(model_update, check_names)))
  /\ UNCHANGED <<model, model_update, model_summary, declared_check_names, edits, run>>

CallValidateModelUpdateAndSummary(limit) ==
  /\ Len(calls) < limit /\ run.state = "idle"
  /\ \E check_names \in BOOLEAN :
       LET status == ValidateModelUpdateAndSummary(model_update, model_summary,
                                                   check_names)
       IN /\ calls' = Append(calls, Call("ValidateModelUpdateAndSummary",
                                         check_names,
                                         StructuralCheckNames(check_names),
                                         status))
          /\ model_summary' =
               SummaryAfterValidation(model_update, model_summary, status)
  /\ UNCHANGED <<model, model_update, declared_check_names, edits, run>>

\* ValidateModelUpdateAndSummary statement by statement: a failing statement
\* returns its status, a passing one hands over to the next.
BeginValidateModelUpdateAndSummary ==
  /\ run.state = "idle" /\ calls = <<>>
  /\ \E check_names \in BOOLEAN :
       run' = [Idle EXCEPT !.state = "running", !.check_names = check_names]
  /\ UNCHANGED <<model, model_update, model_summary, declared_check_names, edits, calls>>

ExecuteStatement ==
  /\ run.state = "running"
  /\ LET status == StatementStatus(Statements[run.next], model_update,
                                   model_summary, run.check_names)
         log == Append(run.evaluated, Statements[run.next])
     IN run' = IF ~status.ok \/ run.next = Len(Statements)
               THEN [run EXCEPT !.state = "returned", !.evaluated = log,
                                !.status = status]
               ELSE [run EXCEPT !.next = @ + 1, !.evaluated = log]
  /\ UNCHANGED <<model, model_update, model_summary, declared_check_names, edits, calls>>

\* --------------------------------------------------------- specifications
\* Models with bounds, validated by ValidateModel.
NextBounds ==
  \/ AddVariable \/ SetVariableBound \/ AddLinearConstraint
  \/ SetLinearConstraintBound \/ CallValidateModel(1)

SpecBounds == Init /\ [][NextBounds]_vars

\* Models with references, validated by ValidateModel.
NextReferences ==
  \/ AddVariable \/ AddLinearConstraint \/ AddObjectiveTerm \/ AddQuadraticTerm
  \/ AddMatrixEntry \/ CallValidateModel(1)

SpecReferences == Init /\ [][NextReferences]_vars

\* Updates of bounds and integrality against a summary.
NextFieldUpdates ==
  \/ ExistingVariable \/ ExistingLinearConstraint \/ DeleteVariable
  \/ DeleteLinearConstraint \/ NewVariable \/ NewLinearConstraint
  \/ UpdateVariable({"lower_bounds", "upper_bounds", "integers"})
  \/ UpdateLinearConstraint({"lower_bounds", "upper_bounds"})
  \/ CallValidateModelUpdateAndSummary(1)

SpecFieldUpdates == Init /\ [][NextFieldUpdates]_vars

\* One entity kind's tracker: the variable ids of the summary, deletions,
\* additions, bound updates and objective terms.
NextTracker ==
  \/ ExistingVariable \/ DeleteVariable \/ NewVariable
  \/ UpdateVariable({"lower_bounds", "upper_bounds", "integers"})
  \/ UpdateObjectiveTerm \/ CallValidateModelUpdateAndSummary(1)

SpecTracker == Init /\ [][NextTracker]_vars

\* Deletions and additions of both kinds against a summary.
NextTrackerValidity ==
  \/ ExistingVariable \/ ExistingLinearConstraint \/ DeleteVariable
  \/ DeleteLinearConstraint \/ NewVariable \/ NewLinearConstraint
  \/ CallValidateModelUpdateAndSummary(1)

SpecTrackerValidity == Init /\ [][NextTrackerValidity]_vars

\* Updates of the objective and of the constraint matrix against a summary.
NextCrossReferences ==
  \/ ExistingVariable \/ ExistingLinearConstraint \/ DeleteVariable
  \/ DeleteLinearConstraint \/ NewVariable \/ NewLinearConstraint
  \/ UpdateObjectiveTerm \/ UpdateQuadraticTerm \/ UpdateMatrixEntry
  \/ CallValidateModelUpdateAndSummary(1)

SpecCrossReferences == Init /\ [][NextCrossReferences]_vars

\* New entities with names against a summary with names.
NextNames ==
  \/ ExistingNamedVariable \/ ExistingNamedLinearConstraint \/ NewVariable
  \/ NewNamedVariable \/ NewNamedLinearConstraint
  \/ CallValidateModelUpdateAndSummary(1)

SpecNames == Init /\ [][NextNames]_vars

\* ValidateModelUpdateAndSummary statement by statement, on updates that can
\* fail each of its statements.
NextStatements ==
  \/ ExistingVariable \/ ExistingLinearConstraint \/ DeleteVariable
  \/ DeleteLinearConstraint \/ UpdateVariable({"lower_bounds"})
  \/ UpdateLinearConstraint({"upper_bounds"})
  \/ UpdateObjectiveTerm \/ UpdateMatrixEntry
  \/ NewNamedVariable \/ NewNamedLinearConstraint
  \/ BeginValidateModelUpdateAndSummary \/ ExecuteStatement

SpecStatements == Init /\ [][NextStatements]_vars

\* The same inputs validated again and again.
NextRepeated ==
  \/ AddVariable \/ ExistingVariable \/ DeleteVariable
  \/ NewVariable \/ CallValidateModel(MaxCalls) \/ CallValidateModelUpdate(MaxCalls)
  \/ CallValidateModelUpdateAndSummary(MaxCalls)

SpecRepeated == Init /\ [][NextRepeated]_vars

\* ------------------------------------------------------------------ claims
LastCall == calls[Len(calls)]

Returned(function) == calls # <<>> /\ LastCall.function = function

IdsWellFormed(ids) == StrictlyIncreasing(ids) /\ \A i \in 1..Len(ids) : ids[i] >= 0

\* A bound the data model excludes: NaN, a lower bound of +infinity, an upper
\* bound of -infinity.
ExcludedBounds(entities) ==
  \/ \E i \in 1..Len(entities.lower_bounds) :
       entities.lower_bounds[i] \in {"NaN", "+inf"}
  \/ \E i \in 1..Len(entities.upper_bounds) :
       entities.upper_bounds[i] \in {"NaN", "-inf"}

\* C5: ValidateModel accepts a model (of well-formed ids) whose bounds are
\* finite, lower bounds of -infinity or upper bounds of +infinity, and rejects
\* with InvalidValue a model with a NaN bound, a lower bound of +infinity or an
\* upper bound of -infinity.
C5_InfiniteBoundsAccepted ==
  (/\ Returned("ValidateModel")
   /\ IdsWellFormed(model.variables.ids)
   /\ IdsWellFormed(model.linear_constraints.ids))
  => IF ExcludedBounds(model.variables) \/ ExcludedBounds(model.linear_constraints)
     THEN ~LastCall.status.ok /\ LastCall.status.kind = "InvalidValue"
     ELSE LastCall.status.ok

\* C6: a model ValidateModel accepts has no dangling reference: the ids of the
\* objective's linear and quadratic terms are variable ids, the matrix's row
\* ids are linear constraint ids and its column ids variable ids.
C6_NoDanglingReference ==
  (Returned("ValidateModel") /\ LastCall.status.ok)
  => /\ Range(model.objective.linear_coefficients.ids) \subseteq Range(model.variables.ids)
     /\ Range(model.objective.quadratic_coefficients.row_ids)
          \subseteq Range(model.variables.ids)
     /\ Range(model.objective.quadratic_coefficients.column_ids)
          \subseteq Range(model.variables.ids)
     /\ Range(model.linear_constraint_matrix.row_ids)
          \subseteq Range(model.linear_constraints.ids)
     /\ Range(model.linear_constraint_matrix.column_ids)
          \subseteq Range(model.variables.ids)

\* C6 happens: an accepted model whose matrix holds a coefficient.
C6_Witness ==
  /\ Returned("ValidateModel") /\ LastCall.status.ok
  /\ model.linear_constraint_matrix.row_ids # <<>>

\* ---- updates against a summary
Status == LastCall.status

Validated == Returned("ValidateModelUpdateAndSummary")

VariableIds == Range(model_summary.variables.ids)

LinearConstraintIds == Range(model_summary.linear_constraints.ids)

\* The two views of each kind's ids: live (in the summary and not deleted by
\* the update) and final (live, or added by the update).
LiveVariables == VariableIds \ Range(model_update.deleted_variable_ids)

LiveLinearConstraints ==
  LinearConstraintIds \ Range(model_update.deleted_linear_constraint_ids)

FinalVariables == LiveVariables \cup Range(model_update.new_variables.ids)

FinalLinearConstraints ==
  LiveLinearConstraints \cup Range(model_update.new_linear_constraints.ids)

\* How far a status shows the validation to have come: the label of the
\* statement that failed tells which statements passed before it.
NameLabels == {"Bad new variable names", "Bad new linear constraint names"}

CrossReferenceLabels ==
  {"Invalid objective update", "Invalid linear constraint matrix update"}

FieldUpdateLabels == {"Invalid variable update", "Invalid linear constraint update"}

TrackerLabels ==
  {"Invalid new or deleted variable id", "Invalid new or deleted linear constraint id"}

PastCrossReferences(status) == status.ok \/ status.path[1] \in NameLabels

PastFieldUpdates(status) ==
  PastCrossReferences(status) \/ status.path[1] \in CrossReferenceLabels

PastTrackers(status) == PastFieldUpdates(status) \/ status.path[1] \in FieldUpdateLabels

PastStructure(status) == PastTrackers(status) \/ status.path[1] \in TrackerLabels

\* C1: an update ValidateModelUpdateAndSummary accepts updates the bounds and
\* integrality only of live entities: ids of the summary that the update does
\* not delete.
C1_FieldUpdatesLive ==
  (Validated /\ Status.ok)
  => /\ \A f \in {"lower_bounds", "upper_bounds", "integers"} :
          Range(model_update.variable_updates[f].ids) \subseteq LiveVariables
     /\ \A f \in {"lower_bounds", "upper_bounds"} :
          Range(model_update.linear_constraint_updates[f].ids)
            \subseteq LiveLinearConstraints

\* C1 happens: an accepted update that updates a bound of a variable.
C1_Witness ==
  /\ Validated /\ Status.ok
  /\ model_update.variable_updates.upper_bounds.ids # <<>>

\* The query as specified: ids against a set of ids, naming the least id
\* outside the set.
SubsetQuery(ids, view) ==
  IF Range(ids) \subseteq view THEN OkStatus
  ELSE Error("DanglingReference",
             <<CHOOSE x \in Range(ids) \ view : \A y \in Range(ids) \ view : x <= y>>)

FirstFailure(statuses) ==
  LET n == First({i \in 1..Len(statuses) : ~statuses[i].ok})
  IN IF n = 0 THEN OkStatus ELSE statuses[n]

ReferencesFinal ==
  /\ Range(model_update.objective_updates.linear_coefficients.ids)
       \subseteq FinalVariables
  /\ Range(model_update.objective_updates.quadratic_coefficients.row_ids)
       \subseteq FinalVariables
  /\ Range(model_update.objective_updates.quadratic_coefficients.column_ids)
       \subseteq FinalVariables
  /\ Range(model_update.linear_constraint_matrix_updates.column_ids)
       \subseteq FinalVariables
  /\ Range(model_update.linear_constraint_matrix_updates.row_ids)
       \subseteq FinalLinearConstraints

\* C2: for an update that is structurally valid, whose deletions and additions
\* are valid and whose field updates pass, the cross-reference checks pass
\* exactly when every id the objective updates and the matrix updates refer to
\* is final.
C2_CrossReferencesFinal ==
  (Validated /\ PastFieldUpdates(Status))
  => (PastCrossReferences(Status) <=> ReferencesFinal)

\* C2 happens: an accepted update whose objective refers to a variable the
\* update itself adds.
C2_Witness ==
  /\ Validated /\ Status.ok
  /\ \E id \in Range(model_update.objective_updates.linear_coefficients.ids) :
       id \in Range(model_update.new_variables.ids) /\ id \notin VariableIds

\* The sorted tracker queries of a validation, in program order.
SortedQueries ==
  <<[outer |-> "Invalid variable update",
     inner |-> "lower bound update on invalid variable id",
     ids |-> model_update.variable_updates.lower_bounds.ids],
    [outer |-> "Invalid variable update",
     inner |-> "upper bound update on invalid variable id",
     ids |-> model_update.variable_updates.upper_bounds.ids],
    [outer |-> "Invalid variable update",
     inner |-> "integer update on invalid variable id",
     ids |-> model_update.variable_updates.integers.ids],
    [outer |-> "Invalid linear constraint update",
     inner |-> "lower bound update on invalid linear constraint id",
     ids |-> model_update.linear_constraint_updates.lower_bounds.ids],
    [outer |-> "Invalid linear constraint update",
     inner |-> "upper bound update on invalid linear constraint id",
     ids |-> model_update.linear_constraint_updates.upper_bounds.ids],
    [outer |-> "Invalid objective update",
     inner |-> "Linear coefficients ids not found in variable ids",
     ids |-> model_update.objective_updates.linear_coefficients.ids],
    [outer |-> "Invalid objective update",
     inner |-> "Quadratic coefficient ids bad",
     ids |-> model_update.objective_updates.quadratic_coefficients.row_ids],
    [outer |-> "Invalid linear constraint matrix update",
     inner |-> "Unknown linear_constraint_id",
     ids |-> model_update.linear_constraint_matrix_updates.row_ids]>>

\* The queries among them that a validation with this status has run: all of
\* them when it passed them all, those up to the failing one otherwise.
QueriesRun(status) ==
  IF ~PastStructure(status) \/ (~status.ok /\ status.path[1] \in TrackerLabels)
  THEN {}
  ELSE IF \E k \in 1..Len(SortedQueries) :
            status.path = <<SortedQueries[k].outer, SortedQueries[k].inner>>
  THEN 1..(CHOOSE k \in 1..Len(SortedQueries) :
             status.path = <<SortedQueries[k].outer, SortedQueries[k].inner>>)
  ELSE 1..Len(SortedQueries)

FieldQueries ==
  {k \in 1..Len(SortedQueries) :
     SortedQueries[k].outer \in FieldUpdateLabels
       \/ SortedQueries[k].inner = "Linear coefficients ids not found in variable ids"}

InvalidDeletion(deleted_ids, old_ids) == ~(Range(deleted_ids) \subseteq old_ids)

IdCollision(new_ids, old_ids) == Range(new_ids) \cap old_ids # {}

Rejected(status, kind) == ~status.ok /\ status.kind = kind

\* C4 as stated: whatever else the update holds, an invalid deletion of a kind
\* is rejected as InvalidDeletion and a collision of a kind (with valid
\* deletions of that kind) as IdCollision; without either, tracker validity
\* passes.
C4_EachKindDiagnosed ==
  (Validated /\ PastStructure(Status))
  => /\ InvalidDeletion(model_update.deleted_variable_ids, VariableIds)
          => Rejected(Status, "InvalidDeletion")
     /\ InvalidDeletion(model_update.deleted_linear_constraint_ids, LinearConstraintIds)
          => Rejected(Status, "InvalidDeletion")
     /\ (/\ IdCollision(model_update.new_variables.ids, VariableIds)
         /\ ~InvalidDeletion(model_update.deleted_variable_ids, VariableIds))
          => Rejected(Status, "IdCollision")
     /\ (/\ IdCollision(model_update.new_linear_constraints.ids, LinearConstraintIds)
         /\ ~InvalidDeletion(model_update.deleted_linear_constraint_ids,
                             LinearConstraintIds))
          => Rejected(Status, "IdCollision")
     /\ (/\ ~InvalidDeletion(model_update.deleted_variable_ids, VariableIds)
         /\ ~InvalidDeletion(model_update.deleted_linear_constraint_ids,
                             LinearConstraintIds)
         /\ ~IdCollision(model_update.new_variables.ids, VariableIds)
         /\ ~IdCollision(model_update.new_linear_constraints.ids, LinearConstraintIds))
          => PastTrackers(Status)

\* C4 as amended: a structurally valid update with an invalid deletion or a
\* collision is rejected, and the diagnosis is that of the first failing check
\* in the order variable deletions, variable additions, constraint deletions,
\* constraint additions; without any, tracker validity passes.
C4_FirstDefectDiagnosed ==
  (Validated /\ PastStructure(Status))
  => IF InvalidDeletion(model_update.deleted_variable_ids, VariableIds)
     THEN /\ Rejected(Status, "InvalidDeletion")
          /\ Status.path[1] = "Invalid new or deleted variable id"
     ELSE IF IdCollision(model_update.new_variables.ids, VariableIds)
     THEN /\ Rejected(Status, "IdCollision")
          /\ Status.path[1] = "Invalid new or deleted variable id"
     ELSE IF InvalidDeletion(model_update.deleted_linear_constraint_ids,
                             LinearConstraintIds)
     THEN /\ Rejected(Status, "InvalidDeletion")
          /\ Status.path[1] = "Invalid new or deleted linear constraint id"
     ELSE IF IdCollision(model_update.new_linear_constraints.ids, LinearConstraintIds)
     THEN /\ Rejected(Status, "IdCollision")
          /\ Status.path[1] = "Invalid new or deleted linear constraint id"
     ELSE PastTrackers(Status)

\* C4 happens: a constraint is deleted that the summary does not hold, a new
\* variable collides with the summary, and the collision is the diagnosis.
C4_Witness ==
  /\ Validated /\ Rejected(Status, "IdCollision")
  /\ InvalidDeletion(model_update.deleted_linear_constraint_ids, LinearConstraintIds)

\* ---- the order of the statements
StructureLabels ==
  {"ModelUpdateProto.deleted_linear_constraint_ids invalid",
   "ModelUpdateProto.deleted_variable_ids invalid",
   "ModelUpdateProto.variable_updates invalid",
   "ModelUpdateProto.linear_constraint_updates invalid",
   "ModelUpdateProto.new_variables invalid",
   "ModelUpdateProto.new_linear_constraints invalid",
   "ModelUpdateProto.objective_update invalid",
   "Model.linear_constraint_matrix_updates invalid"}

\* The steps in the order the specification gives them, each by the label its failure
\* carries.
ClaimedOrder ==
  <<StructureLabels,
    {"Invalid new or deleted variable id"},
    {"Invalid new or deleted linear constraint id"},
    {"Invalid variable update"},
    {"Invalid linear constraint update"},
    {"Invalid objective update"},
    {"Invalid linear constraint matrix update"},
    {"Bad new variable names"},
    {"Bad new linear constraint names"}>>

\* Whether the check of a step fails on the inputs, whatever the other steps
\* do.
StepFails(k, check_names) ==
  LET u == model_update
      variables == VariableIdValidator(u, model_summary)
      constraints == LinearConstraintIdValidator(u, model_summary)
  IN CASE k = 1 -> ~ValidateModelUpdate(u, declared_check_names).ok
       [] k = 2 -> ~IsValid(variables).ok
       [] k = 3 -> ~IsValid(constraints).ok
       [] k = 4 -> ~VariableUpdatesValidForState(u.variable_updates, variables).ok
       [] k = 5 -> ~LinearConstraintUpdatesValidForState(
                      u.linear_constraint_updates, constraints).ok
       [] k = 6 -> ~ObjectiveUpdatesValidForModel(u.objective_updates, variables).ok
       [] k = 7 -> ~LinearConstraintMatrixIdsValidForUpdate(
                      u.linear_constraint_matrix_updates, constraints, variables).ok
       [] k = 8 -> /\ check_names /\ u.new_variables.names # <<>>
                   /\ ~CheckNewNames(model_summary.variables.names,
                                     MakeView(u.new_variables.ids,
                                              u.new_variables.names)).ok
       [] k = 9 -> /\ check_names /\ u.new_linear_constraints.names # <<>>
                   /\ ~CheckNewNames(model_summary.linear_constraints.names,
                                     MakeView(u.new_linear_constraints.ids,
                                              u.new_linear_constraints.names)).ok

\* Fail-fast in the claimed order: a returned validation has evaluated the
\* steps up to the first failing one, whose failure it returns, and no step
\* after it.
FailFast ==
  LET failing == {k \in 1..Len(ClaimedOrder) : StepFails(k, run.check_names)}
  IN IF failing = {}
     THEN run.status.ok /\ Len(run.evaluated) = Len(ClaimedOrder)
     ELSE /\ ~run.status.ok
          /\ run.status.path[1] \in ClaimedOrder[First(failing)]
          /\ Len(run.evaluated) = First(failing)

DeletionInvalid ==
  \/ InvalidDeletion(model_update.deleted_variable_ids, VariableIds)
  \/ InvalidDeletion(model_update.deleted_linear_constraint_ids, LinearConstraintIds)

NewIdCollides ==
  \/ IdCollision(model_update.new_variables.ids, VariableIds)
  \/ IdCollision(model_update.new_linear_constraints.ids, LinearConstraintIds)

\* C9 as stated: fail-fast in the order structure, tracker validity, field
\* updates of variables and of constraints, objective, matrix, names; and a
\* structurally valid update with an invalid deletion and a collision, of
\* whichever kinds, is rejected as InvalidDeletion.
C9_DeletionsBeforeCollisions ==
  run.state = "returned"
  => /\ FailFast
     /\ (PastStructure(run.status) /\ DeletionInvalid /\ NewIdCollides)
          => Rejected(run.status, "InvalidDeletion")

\* C9 as amended: fail-fast in that order, the variable tracker validated
\* before the constraint tracker; within one tracker an invalid deletion is
\* diagnosed before a collision, so an update with an invalid constraint
\* deletion and a colliding new variable is rejected as IdCollision.
C9_FailFastInOrder ==
  run.state = "returned"
  => /\ FailFast
     /\ (~run.status.ok /\ run.status.path[1] = "Invalid new or deleted variable id")
          => run.status.kind =
               IF InvalidDeletion(model_update.deleted_variable_ids, VariableIds)
               THEN "InvalidDeletion" ELSE "IdCollision"
     /\ (~run.status.ok
           /\ run.status.path[1] = "Invalid new or deleted linear constraint id")
          => run.status.kind =
               IF InvalidDeletion(model_update.deleted_linear_constraint_ids,
                                  LinearConstraintIds)
               THEN "InvalidDeletion" ELSE "IdCollision"

\* C9 happens: a new variable collides, a deleted constraint is unknown, and
\* the validation returns the collision after two statements.
C9_Witness ==
  /\ run.state = "returned" /\ Rejected(run.status, "IdCollision")
  /\ InvalidDeletion(model_update.deleted_linear_constraint_ids, LinearConstraintIds)
  /\ Len(run.evaluated) = 2

\* ---- names
NamesAligned(entities) ==
  entities.names = <<>> \/ Len(entities.names) = Len(entities.ids)

NameDefect(entities, registry) ==
  \/ \E i \in 1..Len(entities.names) : entities.names[i] \in registry
  \/ \E i, j \in 1..Len(entities.names) : i < j /\ entities.names[i] = entities.names[j]

WithoutNames(u) ==
  [u EXCEPT !.new_variables.names = <<>>, !.new_linear_constraints.names = <<>>]

\* C8: ValidateModelUpdateAndSummary runs the structural checks with the
\* check_names it was given; with check_names false its result is that of the
\* update without its names, and an update whose only defect is a duplicate
\* new name or a new name of the registry is accepted with check_names false
\* and rejected with check_names true.
C8_CheckNamesHonoured ==
  (/\ Validated
   /\ NamesAligned(model_update.new_variables)
   /\ NamesAligned(model_update.new_linear_constraints))
  => /\ LastCall.structural_check_names = LastCall.check_names
     /\ ~LastCall.check_names
          => Status = ValidateModelUpdateAndSummary(WithoutNames(model_update),
                                                    model_summary, FALSE)
     /\ (/\ \/ NameDefect(model_update.new_variables, model_summary.variables.names)
            \/ NameDefect(model_update.new_linear_constraints,
                          model_summary.linear_constraints.names)
         /\ ValidateModelUpdateAndSummary(WithoutNames(model_update),
                                          model_summary, FALSE).ok)
          => (Status.ok <=> ~LastCall.check_names)

\* ---- repeated validation
SameCall(a, b) == a.function = b.function /\ a.check_names = b.check_names

====
